---- MODULE Spec2Model ----
(***************************************************************************)
(* Model of the stl-frames page script: the parametric picture-frame       *)
(* generator of src/unnamed/part_000 (the build with end tapers and corner *)
(* inserts) and of src/js/app.js (the build without them).                 *)
(*                                                                         *)
(* Lengths are exact integers in units of 1/2000 mm (so 1 mm = 2000,       *)
(* 0.4 mm = 800); every input value of the model is a multiple of 0.2 mm,  *)
(* which keeps each product and quotient of the source exact.  IEEE        *)
(* rounding of the source's doubles is not modelled.                       *)
(***************************************************************************)
EXTENDS Integers, Sequences, FiniteSets, TLC

VARIABLES
    variant,      \* which source file the page runs: "part_000" or "app.js"
    pc,           \* "load" before the bootstrap lines, "ready" after them
    ui,           \* the .value text of the eight form fields
    summary,      \* ui.summary.textContent (the four reported dimensions)
    scene,        \* scene.children, in insertion order
    frameGroup,   \* the module-level frameGroup ("undefined" or a Group)
    camera,       \* the camera: "initial", "fitted" to the frame, or "NaN"
    timers,       \* pending setTimeout callbacks of onChange: remaining ms each
    zips,         \* downloadZip calls suspended at zip.generateAsync
    downloaded,   \* the archive handed to the browser by the last link.click()
    sinceInput,   \* history: ms since the last 'input' event, capped at Wait
                  \* (-1 as long as there was none)
    burst,        \* history: 'input' events of the current run, each less
                  \* than Wait after the one before (2 stands for 2 or more)
    rebuilds,     \* history: debounced rebuilds since the last 'input' event
    arg,          \* argument of the function call under study
    sane,         \* normalizeParams(arg), once called
    again         \* normalizeParams(sane), once called

vars == << variant, pc, ui, summary, scene, frameGroup, camera, timers, zips,
           downloaded, sinceInput, burst, rebuilds, arg, sane, again >>

----------------------------------------------------------------------------
(* JavaScript numbers: a finite value (in 1/2000 mm), NaN, +Infinity or    *)
(* -Infinity.                                                              *)

Fin(v) == [k |-> "fin", v |-> v]
NaN == [k |-> "nan", v |-> 0]
PosInf == [k |-> "inf", v |-> 0]
NegInf == [k |-> "ninf", v |-> 0]

\* Number.isFinite
IsFinite(x) == x.k = "fin"

\* a + b
Plus(a, b) ==
    IF a.k = "fin" /\ b.k = "fin" THEN Fin(a.v + b.v)
    ELSE IF a.k = "nan" \/ b.k = "nan" THEN NaN
    ELSE IF a.k = "fin" THEN b
    ELSE IF b.k = "fin" THEN a
    ELSE IF a.k = b.k THEN a
    ELSE NaN

\* -a
Neg(a) ==
    IF a.k = "fin" THEN Fin(0 - a.v)
    ELSE IF a.k = "inf" THEN NegInf
    ELSE IF a.k = "ninf" THEN PosInf
    ELSE NaN

\* a - b
Minus(a, b) == Plus(a, Neg(b))

\* a * (n / d) for a positive literal n/d of the source (0.45 is 9/20, ...)
Times(a, n, d) == IF a.k = "fin" THEN Fin((a.v * n) \div d) ELSE a

\* a >= b (false as soon as one side is NaN)
Geq(a, b) ==
    IF a.k = "nan" \/ b.k = "nan" THEN FALSE
    ELSE IF a.k = "fin" /\ b.k = "fin" THEN a.v >= b.v
    ELSE a.k = "inf" \/ b.k = "ninf"

\* a <= b
Leq(a, b) == Geq(b, a)

\* a < b
Less(a, b) ==
    IF a.k = "nan" \/ b.k = "nan" THEN FALSE ELSE ~Geq(a, b)

\* Math.max(a, b)
MathMax(a, b) ==
    IF a.k = "nan" \/ b.k = "nan" THEN NaN
    ELSE IF Geq(a, b) THEN a ELSE b

\* Math.min(a, b)
MathMin(a, b) ==
    IF a.k = "nan" \/ b.k = "nan" THEN NaN
    ELSE IF Geq(a, b) THEN b ELSE a

Zero == Fin(0)

----------------------------------------------------------------------------
(* The defaults and the parameter normalizer.                              *)

defaults ==
    [ width        |-> Fin(1200000),   \* 600
      height       |-> Fin(800000),    \* 400
      faceWidth    |-> Fin(40000),     \* 20
      profileDepth |-> Fin(28000),     \* 14
      lipWidth     |-> Fin(8000),      \* 4
      lipDepth     |-> Fin(8000),      \* 4
      clearance    |-> Fin(800),       \* 0.4
      style        |-> "minimal" ]

\* Object.entries(numericDefaults), in insertion order
numericKeys ==
    << "width", "height", "faceWidth", "profileDepth",
       "lipWidth", "lipDepth", "clearance" >>

fieldKeys == { numericKeys[i] : i \in 1..Len(numericKeys) } \cup {"style"}

\* the test of the fallback loop: !Number.isFinite(v) || v <= 0
NeedsFallbackZeroOk(v) == ~IsFinite(v) \/ Less(v, Zero)
NeedsFallback(v) == ~IsFinite(v) \/ Leq(v, Zero)

\* the for-of loop over the numeric defaults, from entry i on
RECURSIVE ApplyFallbacks(_, _)
ApplyFallbacks(s, i) ==
    IF i > Len(numericKeys) THEN s
    ELSE LET key == numericKeys[i]
         IN ApplyFallbacks(
                IF NeedsFallback(s[key]) THEN [s EXCEPT ![key] = defaults[key]]
                ELSE s,
                i + 1)

\* the two cross-field repairs: if (lip >= outer) lip = Math.max(2, outer * n/d)
ClampLipShrinkSelf(lip, outer, n, d) == MathMax(Fin(4000), Times(lip, n, d))
ClampLip(lip, outer, n, d) ==
    IF Geq(lip, outer) THEN MathMax(Fin(4000), Times(outer, n, d)) ELSE lip

\* if (sane.lipWidth >= sane.faceWidth) sane.lipWidth = max(2, faceWidth * 0.45)
clampLipWidth(s) ==
    [s EXCEPT !.lipWidth = ClampLip(s.lipWidth, s.faceWidth, 9, 20)]

\* if (sane.lipDepth >= sane.profileDepth) sane.lipDepth = max(2, profileDepth * 0.35)
clampLipDepth(s) ==
    [s EXCEPT !.lipDepth = ClampLip(s.lipDepth, s.profileDepth, 7, 20)]

normalizeParams(params) ==
    clampLipDepth(clampLipWidth(ApplyFallbacks(params, 1)))

----------------------------------------------------------------------------
(* The form fields hold text; readParams converts it with Number().        *)

\* the decimal texts the model types into a field, with their values
decimalTexts ==
    { << "600", 1200000 >>, << "400", 800000 >>, << "300", 600000 >>,
      << "30", 60000 >>, << "20", 40000 >>, << "14", 28000 >>,
      << "10", 20000 >>, << "4", 8000 >>, << "3", 6000 >>, << "2", 4000 >>,
      << "1", 2000 >>, << "0.4", 800 >>, << "0", 0 >>, << "-5", -10000 >> }

\* Number(text): "" is 0, a decimal literal its value, "Infinity" and
\* "-Infinity" the infinities, anything else NaN
Number(text) ==
    IF text = "" THEN Fin(0)
    ELSE IF text = "Infinity" THEN PosInf
    ELSE IF text = "-Infinity" THEN NegInf
    ELSE IF \E e \in decimalTexts : e[1] = text
         THEN Fin((CHOOSE e \in decimalTexts : e[1] = text)[2])
    ELSE NaN

\* the text a field shows after `field.value = x` for a number x (String(x))
ValueText(x) == (CHOOSE e \in decimalTexts : e[2] = x.v)[1]

readParams(fields) ==
    [ width        |-> Number(fields.width),
      height       |-> Number(fields.height),
      faceWidth    |-> Number(fields.faceWidth),
      profileDepth |-> Number(fields.profileDepth),
      lipWidth     |-> Number(fields.lipWidth),
      lipDepth     |-> Number(fields.lipDepth),
      clearance    |-> Number(fields.clearance),
      style        |-> fields.style ]

\* the fields after setDefaults()
setDefaults ==
    [key \in fieldKeys |->
        IF key = "style" THEN defaults.style ELSE ValueText(defaults[key])]

----------------------------------------------------------------------------
(* Geometry.  A BufferGeometry is kept as the extruded shape, the extrude  *)
(* settings and the list of in-place edits the source applies to it, in    *)
(* the order it applies them; Vertices evaluates that list.                *)

Op(name, x, y, z) == [op |-> name, x |-> x, y |-> y, z |-> z]

buildProfileShape(faceWidth, profileDepth, lipWidth, lipDepth) ==
    << << Zero, Zero >>,
       << faceWidth, Zero >>,
       << faceWidth, profileDepth >>,
       << Minus(faceWidth, lipWidth), profileDepth >>,
       << Minus(faceWidth, lipWidth), lipDepth >>,
       << Zero, lipDepth >>,
       << Zero, Zero >> >>

\* greatest common divisor of two naturals
RECURSIVE Gcd(_, _)
Gcd(a, b) == IF b = 0 THEN a ELSE Gcd(b, a % b)

Abs(i) == IF i < 0 THEN 0 - i ELSE i
Sign(i) == IF i > 0 THEN 1 ELSE IF i < 0 THEN 0 - 1 ELSE 0

\* a rational n/d (d > 0); d = 0 stands for NaN
Rat(n, d) == [n |-> n, d |-> d]

\* r * (n / d)
RatTimes(r, n, d) == Rat(r.n * n, r.d * d)

\* a + r for a number a and a rational r
PlusRat(a, r) ==
    IF r.d = 0 THEN NaN ELSE Plus(a, Fin(r.n \div r.d))

\* addMiterEnds: taperSpan = Math.max(faceWidth, profileDepth) * 1.1
taperSpanOf(faceWidth, profileDepth) ==
    (MathMax(faceWidth, profileDepth).v * 11) \div 10

\* addMiterEnds: the test that leaves a vertex alone
MiterSkips(distanceFromEnd, taperSpan) ==
    distanceFromEnd >= taperSpan \/ distanceFromEnd < 0

\* addMiterEnds: skew = reach * t with t = 1 - distanceFromEnd / taperSpan,
\* where rise = taperSpan - distanceFromEnd and g divides rise and taperSpan
miterRamp(reach, rise, taperSpan, g) ==
    Rat(reach * (rise \div g), taperSpan \div g)

\* addMiterEnds for one vertex at axial coordinate z, on integers
miterVertexFlat(z, half, taperSpan, reach) ==
    IF half - Abs(z) >= taperSpan THEN Rat(0, 1) ELSE Rat(reach * Sign(z), 1)
miterVertex(z, half, taperSpan, reach) ==
    IF MiterSkips(half - Abs(z), taperSpan) THEN Rat(0, 1)
    ELSE miterRamp(reach * Sign(z), taperSpan - (half - Abs(z)), taperSpan,
                   Gcd(taperSpan - (half - Abs(z)), taperSpan))

\* addMiterEnds for one vertex: its `skew` as an exact rational (x moves by
\* skew, y by skew * 0.55)
miterSkew(z, length, faceWidth, profileDepth) ==
    IF ~(IsFinite(z) /\ IsFinite(length) /\ IsFinite(faceWidth)
            /\ IsFinite(profileDepth))
    THEN Rat(0, 0)
    ELSE miterVertex(z.v, length.v \div 2,
                     taperSpanOf(faceWidth, profileDepth),
                     faceWidth.v + (profileDepth.v * 8) \div 10)

\* one vertex: its coordinates, and per axis the largest size of the
\* woodgrain perturbation added to it (sines and cosines of the position,
\* which the model bounds instead of evaluating)
Vertex(x, y, z) == [x |-> x, y |-> y, z |-> z, wx |-> 0, wy |-> 0, wz |-> 0]

\* pos.setX(i, x + skew); pos.setY(i, y + skew * 0.55)
Skewed(v, skew) ==
    [v EXCEPT !.x = PlusRat(v.x, skew),
              !.y = PlusRat(v.y, RatTimes(skew, 11, 20))]

\* one in-place edit of the geometry applied to one vertex
ApplyOp(v, o) ==
    IF o.op = "translate"
    THEN [v EXCEPT !.x = Plus(v.x, o.x), !.y = Plus(v.y, o.y),
                   !.z = Plus(v.z, o.z)]
    ELSE IF o.op = "addMiterEnds"
    THEN Skewed(v, miterSkew(v.z, o.z, o.x, o.y))
    ELSE IF o.op = "carveWoodgrain"
    \* |bump| <= (1 + 0.6) * 0.55: x moves by at most 0.132, y by 0.308
    THEN [v EXCEPT !.wx = v.wx + 264, !.wy = v.wy + 616]
    ELSE IF o.op = "jitterWood"
    \* |noise| <= 0.35: x moves by at most 0.21, z by 0.35
    THEN [v EXCEPT !.wx = v.wx + 420, !.wz = v.wz + 700]
    ELSE IF o.op = "rotateY"
    \* by +90 degrees: (x, y, z) -> (z, y, -x)
    THEN [v EXCEPT !.x = v.z, !.z = Neg(v.x), !.wx = v.wz, !.wz = v.wx]
    ELSE IF o.op = "rotateX"
    \* by -90 degrees: (x, y, z) -> (x, z, -y)
    THEN [v EXCEPT !.y = v.z, !.z = Neg(v.y), !.wy = v.wz, !.wz = v.wy]
    ELSE v

RECURSIVE ApplyOps(_, _, _)
ApplyOps(v, ops, i) ==
    IF i > Len(ops) THEN v ELSE ApplyOps(ApplyOp(v, ops[i]), ops, i + 1)

\* the axial coordinates at which ExtrudeGeometry lays rings of vertices:
\* the two end faces and, with a bevel of 2 segments, two rings beyond each
\* end, at bevelThickness * cos(0) and bevelThickness * cos(45 deg), the
\* cosine taken as 17/24
ExtrudeLayers(settings) ==
    IF settings.bevelEnabled
    THEN { Neg(settings.bevelThickness),
           Neg(Times(settings.bevelThickness, 17, 24)),
           Zero,
           settings.depth,
           Plus(settings.depth, Times(settings.bevelThickness, 17, 24)),
           Plus(settings.depth, settings.bevelThickness) }
    ELSE { Zero, settings.depth }

\* new THREE.ExtrudeGeometry(shape, settings)
ExtrudeGeometry(shape, settings) ==
    [shape |-> shape, settings |-> settings, ops |-> << >>]

\* the geometry after one more in-place edit
Edited(geometry, o) == [geometry EXCEPT !.ops = Append(@, o)]

\* the vertices of a geometry after its first n edits, and after all of them
VerticesAfter(geometry, n) ==
    { ApplyOps(Vertex(geometry.shape[i][1], geometry.shape[i][2], l),
               SubSeq(geometry.ops, 1, n), 1) :
        i \in 1..Len(geometry.shape), l \in ExtrudeLayers(geometry.settings) }
Vertices(geometry) == VerticesAfter(geometry, Len(geometry.ops))

----------------------------------------------------------------------------
(* The piece builders.  `file` is the source file whose version runs.      *)

Origin == << Zero, Zero, Zero >>

\* new THREE.Mesh(geometry, material): placed at the origin, not rotated
Mesh(geometry, material) ==
    [geometry |-> geometry, material |-> material,
     position |-> Origin, rotationZ |-> 0]

\* the orientation branch shared by createPiece and createLipOverlay
Oriented(geometry, orientation) ==
    IF orientation = "horizontal"
    THEN Edited(geometry, Op("rotateY", Zero, Zero, Zero))
    ELSE IF orientation = "vertical"
    THEN Edited(geometry, Op("rotateX", Zero, Zero, Zero))
    ELSE geometry

\* the material of a rail: colour and roughness (in hundredths) by style
PieceMaterialBoldElse(file, style) ==
    [color |-> IF style = "wood"
               THEN (IF file = "part_000" THEN "0xae8a63" ELSE "0xb18f6a")
               ELSE IF style = "minimal" THEN "0x9ad4ff" ELSE "0x7cc7ff",
     roughness |-> IF style = "wood"
                   THEN (IF file = "part_000" THEN 90 ELSE 80)
                   ELSE 45,
     metalness |-> 5, opacity |-> 100]
PieceMaterial(file, style) ==
    [color |-> IF style = "wood"
               THEN (IF file = "part_000" THEN "0xae8a63" ELSE "0xb18f6a")
               ELSE IF style = "bold" THEN "0x7cc7ff" ELSE "0x9ad4ff",
     roughness |-> IF style = "wood"
                   THEN (IF file = "part_000" THEN 90 ELSE 80)
                   ELSE 45,
     metalness |-> 5, opacity |-> 100]

\* the extrudeSettings of createPiece
pieceExtrudeSettings(length, bevel) ==
    [depth |-> length, bevelEnabled |-> bevel,
     bevelThickness |-> IF bevel THEN Fin(2400) ELSE Zero,
     bevelSize |-> IF bevel THEN Fin(1600) ELSE Zero,
     bevelSegments |-> 2]

\* createPiece: addMiterEnds(geometry, length, params), in the file that has it
Tapered(file, geometry, length, params) ==
    IF file = "part_000"
    THEN Edited(geometry, Op("addMiterEnds", params.faceWidth,
                             params.profileDepth, length))
    ELSE geometry

\* createPiece: if (style === 'wood') carveWoodgrain / jitterWood
Grained(file, geometry, length, style) ==
    IF style = "wood"
    THEN Edited(geometry, Op(IF file = "part_000" THEN "carveWoodgrain"
                             ELSE "jitterWood", Zero, Zero, length))
    ELSE geometry

createPiece(file, length, orientation, params) ==
    Mesh(Oriented(
             Grained(file,
                 Tapered(file,
                     Edited(ExtrudeGeometry(
                                buildProfileShape(params.faceWidth,
                                    params.profileDepth, params.lipWidth,
                                    params.lipDepth),
                                pieceExtrudeSettings(length,
                                                     params.style = "bold")),
                            Op("translate",
                               Neg(Times(params.faceWidth, 1, 2)),
                               Neg(Times(params.profileDepth, 1, 2)),
                               Neg(Times(length, 1, 2)))),
                     length, params),
                 length, params.style),
             orientation),
         PieceMaterial(file, params.style))

\* the lipShape of createLipOverlay, from its corner (x0, y0)
lipShapeFrom(x0, y0, lipWidth, lipDepth) ==
    << << x0, y0 >>,
       << Plus(x0, lipWidth), y0 >>,
       << Plus(x0, lipWidth), Plus(y0, lipDepth) >>,
       << x0, Plus(y0, lipDepth) >>,
       << x0, y0 >> >>

\* the material of a lip overlay
LipMaterial(file) ==
    IF file = "part_000"
    THEN [color |-> "0xffe0a3", roughness |-> 45, metalness |-> 5,
          opacity |-> 70]
    ELSE [color |-> "0xffb347", roughness |-> 30, metalness |-> 5,
          opacity |-> 100]

createLipOverlay(file, length, orientation, params) ==
    Mesh(Edited(Oriented(
                    ExtrudeGeometry(
                        lipShapeFrom(Neg(Times(params.faceWidth, 1, 2)),
                                     Neg(Times(params.profileDepth, 1, 2)),
                                     params.lipWidth, params.lipDepth),
                        [depth |-> length, bevelEnabled |-> FALSE,
                         bevelThickness |-> Zero, bevelSize |-> Zero,
                         bevelSegments |-> 0]),
                    orientation),
                Op("translate", Zero, Zero, Neg(Times(length, 1, 2)))),
         LipMaterial(file))

\* the body of createCornerInsert, from the four sizes it derives.  The z of
\* its translate is -geometry.parameters.depth / 2, and the parameters of an
\* ExtrudeGeometry are { shapes, options }: parameters.depth is undefined,
\* so the z is NaN
cornerInsertOf(insertThickness, insertLeg, taper, depth) ==
    Mesh(Edited(ExtrudeGeometry(
                    << << Zero, Zero >>,
                       << insertLeg, Zero >>,
                       << insertLeg, insertThickness >>,
                       << taper, insertThickness >>,
                       << taper, insertLeg >>,
                       << Zero, insertLeg >>,
                       << Zero, Zero >> >>,
                    [depth |-> depth, bevelEnabled |-> FALSE,
                     bevelThickness |-> Zero, bevelSize |-> Zero,
                     bevelSegments |-> 0]),
                Op("translate", Neg(Times(insertLeg, 1, 2)),
                   Neg(Times(insertLeg, 1, 2)), NaN)),
         [color |-> "0x72f1b8", roughness |-> 50, metalness |-> 5,
          opacity |-> 100])

createCornerInsert(params) ==
    cornerInsertOf(
        MathMax(Fin(6000), Times(params.profileDepth, 7, 20)),
        MathMax(Fin(48000), Times(params.faceWidth, 7, 5)),
        MathMax(Fin(12000), Times(params.faceWidth, 2, 5)),
        MathMax(Fin(12000),
                Plus(Times(params.lipDepth, 11, 10), params.clearance)))

----------------------------------------------------------------------------
(* The frame assembler and the exporter.                                   *)

\* buildFrame: the lengths derived from innerWidth and innerHeight
frameLengthsOneLip(innerWidth, innerHeight, lipWidth, faceWidth) ==
    [innerWidth |-> innerWidth, innerHeight |-> innerHeight,
     horizontalLength |-> Plus(innerWidth, lipWidth),
     verticalLength |-> Plus(innerHeight, lipWidth),
     offsetX |-> Times(innerWidth, 1, 2),
     offsetY |-> Times(innerHeight, 1, 2),
     outerWidth |-> Plus(innerWidth, Times(faceWidth, 2, 1)),
     outerHeight |-> Plus(innerHeight, Times(faceWidth, 2, 1))]
frameLengths(innerWidth, innerHeight, lipWidth, faceWidth) ==
    [innerWidth |-> innerWidth, innerHeight |-> innerHeight,
     horizontalLength |-> Plus(innerWidth, Times(lipWidth, 2, 1)),
     verticalLength |-> Plus(innerHeight, Times(lipWidth, 2, 1)),
     offsetX |-> Times(innerWidth, 1, 2),
     offsetY |-> Times(innerHeight, 1, 2),
     outerWidth |-> Plus(innerWidth, Times(faceWidth, 2, 1)),
     outerHeight |-> Plus(innerHeight, Times(faceWidth, 2, 1))]

\* buildFrame: everything it derives from the normalized parameters
frameDimensions(p) ==
    frameLengths(Plus(p.width, Times(p.clearance, 2, 1)),
                 Plus(p.height, Times(p.clearance, 2, 1)),
                 p.lipWidth, p.faceWidth)

\* x.toFixed(1): x rounded to a tenth of a millimetre
ToFixed1(x) ==
    IF IsFinite(x) THEN Fin(((x.v + 100) \div 200) * 200) ELSE x

\* the free identifier `lipDepth` of buildFrame: buildFrame does not take it
\* from safeParams, so it is the global window.lipDepth, the form field
\* <input id="lipDepth"> itself, and an element times 0.2 is NaN
lipDepthInBuildFrame == NaN

\* mesh.position.set(x, y, z), then mesh.rotation.z = degrees
Placed(mesh, x, y, z, degrees) ==
    [mesh EXCEPT !.position = << x, y, z >>, !.rotationZ = degrees]

\* buildFrame: the four clones of the insert, placed and turned
insertsAt(insert, px, py, pz) ==
    << Placed(insert, px, py, pz, 0),
       Placed(insert, px, Neg(py), pz, 90),
       Placed(insert, Neg(px), py, pz, 0 - 90),
       Placed(insert, Neg(px), Neg(py), pz, 180) >>

\* buildFrame: insertOffset = Math.min(innerWidth, innerHeight) * 0.25
insertOffsetOf(d) == Times(MathMin(d.innerWidth, d.innerHeight), 1, 4)

\* buildFrame: the corner inserts, in the file that has them
placeInsertsNever(file, safeParams, d) == << >>
placeInserts(file, safeParams, d) ==
    IF file # "part_000" THEN << >>
    ELSE insertsAt(createCornerInsert(safeParams),
                   Minus(d.offsetX, insertOffsetOf(d)),
                   Minus(d.offsetY, insertOffsetOf(d)),
                   Times(lipDepthInBuildFrame, 1, 5))

\* buildFrame: top, bottom, left and right, each moved off the centre
rails(file, safeParams, d, side) ==
    << [createPiece(file, d.horizontalLength, "horizontal", safeParams)
            EXCEPT !.position[2] = Plus(d.offsetY, side)],
       [createPiece(file, d.horizontalLength, "horizontal", safeParams)
            EXCEPT !.position[2] = Neg(Plus(d.offsetY, side))],
       [createPiece(file, d.verticalLength, "vertical", safeParams)
            EXCEPT !.position[1] = Neg(Plus(d.offsetX, side))],
       [createPiece(file, d.verticalLength, "vertical", safeParams)
            EXCEPT !.position[1] = Plus(d.offsetX, side)] >>

\* buildFrame: lipTop, lipBottom, lipLeft and lipRight, each at its rail
lips(file, safeParams, d, r) ==
    << [createLipOverlay(file, d.horizontalLength, "horizontal", safeParams)
            EXCEPT !.position = r[1].position],
       [createLipOverlay(file, d.horizontalLength, "horizontal", safeParams)
            EXCEPT !.position = r[2].position],
       [createLipOverlay(file, d.verticalLength, "vertical", safeParams)
            EXCEPT !.position = r[3].position],
       [createLipOverlay(file, d.verticalLength, "vertical", safeParams)
            EXCEPT !.position = r[4].position] >>

\* buildFrame: frameGroup.add(...) and the summary line
grouped(file, safeParams, d, r) ==
    [group |-> [type |-> "Group",
                children |-> r \o lips(file, safeParams, d, r)
                               \o placeInserts(file, safeParams, d)],
     summary |-> [innerWidth |-> ToFixed1(d.innerWidth),
                  innerHeight |-> ToFixed1(d.innerHeight),
                  outerWidth |-> ToFixed1(d.outerWidth),
                  outerHeight |-> ToFixed1(d.outerHeight)]]

assembled(file, safeParams, d) ==
    grouped(file, safeParams, d,
            rails(file, safeParams, d,
                  Times(Minus(safeParams.faceWidth, safeParams.lipWidth), 1, 2)))

assemble(file, safeParams) ==
    assembled(file, safeParams, frameDimensions(safeParams))

\* the Group buildFrame(params) fills, and the summary line it writes
buildFrame(file, params) == assemble(file, normalizeParams(params))

\* downloadZip: the lengths derived from innerWidth and innerHeight
zipLengths(innerWidth, innerHeight, lipWidth) ==
    [innerWidth |-> innerWidth, innerHeight |-> innerHeight,
     horizontalLength |-> Plus(innerWidth, Times(lipWidth, 2, 1)),
     verticalLength |-> Plus(innerHeight, Times(lipWidth, 2, 1))]

zipDimensions(p) ==
    zipLengths(Plus(p.width, Times(p.clearance, 2, 1)),
               Plus(p.height, Times(p.clearance, 2, 1)),
               p.lipWidth)

\* downloadZip: the `pieces` table
zipPiecesWithLips(file, d) ==
    << [name |-> "frame_top.stl", length |-> d.horizontalLength,
        orientation |-> "horizontal", insert |-> FALSE],
       [name |-> "frame_bottom.stl", length |-> d.horizontalLength,
        orientation |-> "horizontal", insert |-> FALSE],
       [name |-> "frame_left.stl", length |-> d.verticalLength,
        orientation |-> "vertical", insert |-> FALSE],
       [name |-> "frame_right.stl", length |-> d.verticalLength,
        orientation |-> "vertical", insert |-> FALSE],
       [name |-> "lip_top.stl", length |-> d.horizontalLength,
        orientation |-> "horizontal", insert |-> FALSE] >>
zipPieces(file, d) ==
    << [name |-> "frame_top.stl", length |-> d.horizontalLength,
        orientation |-> "horizontal", insert |-> FALSE],
       [name |-> "frame_bottom.stl", length |-> d.horizontalLength,
        orientation |-> "horizontal", insert |-> FALSE],
       [name |-> "frame_left.stl", length |-> d.verticalLength,
        orientation |-> "vertical", insert |-> FALSE],
       [name |-> "frame_right.stl", length |-> d.verticalLength,
        orientation |-> "vertical", insert |-> FALSE] >>
    \o (IF file = "part_000"
        THEN << [name |-> "corner_insert_A.stl", length |-> Zero,
                 orientation |-> "", insert |-> TRUE],
                [name |-> "corner_insert_B.stl", length |-> Zero,
                 orientation |-> "", insert |-> TRUE] >>
        ELSE << >>)

\* downloadZip: pieces.forEach, one file per entry, its payload the mesh
\* handed to exporter.parse
zippedFromLiveFrame(file, params, pieces) ==
    [i \in 1..Len(pieces) |->
        [name |-> pieces[i].name,
         stl |-> [frameGroup.children[IF pieces[i].insert THEN 9 ELSE i]
                     EXCEPT !.position = Origin]]]
zipped(file, params, pieces) ==
    [i \in 1..Len(pieces) |->
        [name |-> pieces[i].name,
         stl |-> IF pieces[i].insert
                 THEN createCornerInsert(params)
                 ELSE [createPiece(file, pieces[i].length,
                                   pieces[i].orientation, params)
                          EXCEPT !.position = Origin]]]

zipFiles(file, params) ==
    zipped(file, params, zipPieces(file, zipDimensions(params)))

\* the files downloadZip puts into the archive, from the fields it reads
\* when it starts
downloadZipFiles(file, fields) ==
    zipFiles(file, normalizeParams(readParams(fields)))

----------------------------------------------------------------------------
(* The page: fields, scene, debounce timer, exports.                       *)

\* debounce(fn, wait = 180)
Wait == 180

\* how far one step of the clock advances, in ms
TickStep == 60

\* how many downloadZip calls may be suspended at once
MaxExports == 1

Files == {"part_000", "app.js"}

Undefined == [type |-> "undefined", children |-> << >>]
None == [k |-> "none"]
NoArchive == [files |-> << >>, from |-> "none"]

\* the children of the scene after initThree: two lights and the grid
initThree ==
    << [type |-> "HemisphereLight", children |-> << >>],
       [type |-> "DirectionalLight", children |-> << >>],
       [type |-> "GridHelper", children |-> << >>] >>

\* scene.remove(object)
RECURSIVE SceneRemove(_, _)
SceneRemove(children, object) ==
    IF children = << >> THEN << >>
    ELSE IF Head(children) = object THEN Tail(children)
    ELSE << Head(children) >> \o SceneRemove(Tail(children), object)

\* the scene's children once buildFrame has swapped the groups
SceneKeepsOld(children, old, new) == Append(children, new)
SceneSwap(children, old, new) ==
    Append(IF old.type # "undefined" THEN SceneRemove(children, old)
           ELSE children,
           new)

\* fitCameraToFrame: the camera distance comes from the bounding box of the
\* group, which is NaN as soon as one placement coordinate is
fitCameraToFrame(group) ==
    IF \A i \in 1..Len(group.children) :
          \A j \in 1..3 : IsFinite(group.children[i].position[j])
    THEN "fitted" ELSE "NaN"

\* the effect of buildFrame on the page, `built` being what it assembled
\* and `children` the scene's children when it starts
Rebuilt(built, children) ==
    /\ frameGroup' = built.group
    /\ scene' = SceneSwap(children, frameGroup, built.group)
    /\ summary' = built.summary
    /\ camera' = fitCameraToFrame(built.group)

\* buildFrame(params)
BuildFrame(params) == Rebuilt(buildFrame(variant, params), scene)

\* clearTimeout(t): t is the newest timer, the last of the pending ones
clearTimeoutNothing(pending) == pending
clearTimeout(pending) ==
    IF pending = << >> THEN pending
    ELSE SubSeq(pending, 1, Len(pending) - 1)

\* a timer whose wait is over; its callback runs before any later event
TimerDue == timers # << >> /\ Head(timers) = 0

Init ==
    /\ variant \in Files
    /\ pc = "load"
    /\ ui = [key \in fieldKeys |-> ""]
    /\ summary = None
    /\ scene = << >>
    /\ frameGroup = Undefined
    /\ camera = "initial"
    /\ timers = << >>
    /\ zips = << >>
    /\ downloaded = NoArchive
    /\ sinceInput = 0 - 1
    /\ burst = 0
    /\ rebuilds = 0
    /\ arg = None
    /\ sane = None
    /\ again = None

\* the last four lines of the script
Bootstrap ==
    /\ pc = "load"
    /\ pc' = "ready"
    /\ ui' = setDefaults
    /\ Rebuilt(buildFrame(variant, readParams(setDefaults)), initThree)
    /\ UNCHANGED << variant, timers, zips, downloaded, sinceInput, burst,
                    rebuilds, arg, sane, again >>

\* what the user may type or select: field and new text
EditChoices ==
    { << "lipWidth", "30" >>, << "lipWidth", "4" >>,
      << "style", "minimal" >>, << "style", "bold" >>, << "style", "wood" >> }

\* a field that has no 'input' listener: its text changes and nothing runs
EditUnheard(key, text) ==
    /\ pc = "ready"
    /\ ~TimerDue
    /\ ui[key] # text
    /\ ui' = [ui EXCEPT ![key] = text]
    /\ UNCHANGED << variant, pc, summary, scene, frameGroup, camera, timers,
                    zips, downloaded, sinceInput, burst, rebuilds, arg, sane,
                    again >>
\* an 'input' event of a field: the debounced onChange restarts its timer
Edit(key, text) ==
    /\ pc = "ready"
    /\ ~TimerDue
    /\ ui[key] # text
    /\ ui' = [ui EXCEPT ![key] = text]
    /\ timers' = Append(clearTimeout(timers), Wait)
    /\ sinceInput' = 0
    /\ burst' = IF sinceInput >= 0 /\ sinceInput < Wait /\ burst >= 1 THEN 2
                ELSE 1
    /\ rebuilds' = 0
    /\ UNCHANGED << variant, pc, summary, scene, frameGroup, camera, zips,
                    downloaded, arg, sane, again >>

\* `step` ms pass
Elapse(step) ==
    /\ timers' = [i \in 1..Len(timers) |-> timers[i] - step]
    /\ sinceInput' = IF sinceInput < 0 THEN sinceInput
                     ELSE IF sinceInput + step > Wait THEN Wait
                     ELSE sinceInput + step

\* time passes, up to the moment the next timer is due
Tick ==
    /\ pc = "ready"
    /\ ~TimerDue
    /\ Elapse(IF timers # << >> /\ Head(timers) < TickStep
              THEN Head(timers) ELSE TickStep)
    /\ UNCHANGED << variant, pc, ui, summary, scene, frameGroup, camera, zips,
                    downloaded, burst, rebuilds, arg, sane, again >>

\* the timer callback: () => buildFrame(readParams())
TimerFire ==
    /\ pc = "ready"
    /\ TimerDue
    /\ timers' = Tail(timers)
    /\ BuildFrame(readParams(ui))
    /\ rebuilds' = IF rebuilds < 2 THEN rebuilds + 1 ELSE rebuilds
    /\ UNCHANGED << variant, pc, ui, zips, downloaded, sinceInput, burst,
                    arg, sane, again >>

\* click on "update preview"
ClickUpdate ==
    /\ pc = "ready"
    /\ ~TimerDue
    /\ BuildFrame(readParams(ui))
    /\ UNCHANGED << variant, pc, ui, timers, zips, downloaded, sinceInput,
                    burst, rebuilds, arg, sane, again >>

\* click on "reset defaults"
ClickReset ==
    /\ pc = "ready"
    /\ ~TimerDue
    /\ ui' = setDefaults
    /\ BuildFrame(readParams(setDefaults))
    /\ UNCHANGED << variant, pc, timers, zips, downloaded, sinceInput,
                    burst, rebuilds, arg, sane, again >>

\* click on "download": downloadZip runs up to its await
ClickDownload ==
    /\ pc = "ready"
    /\ ~TimerDue
    /\ Len(zips) < MaxExports
    /\ zips' = Append(zips, [files |-> downloadZipFiles(variant, ui),
                             from |-> ui])
    /\ UNCHANGED << variant, pc, ui, summary, scene, frameGroup, camera,
                    timers, downloaded, sinceInput, burst, rebuilds, arg, sane,
                    again >>

\* zip.generateAsync resolves: the rest of downloadZip hands over the blob
GenerateDone(i) ==
    /\ i \in 1..Len(zips)
    /\ downloaded' = zips[i]
    /\ zips' = SubSeq(zips, 1, i - 1) \o SubSeq(zips, i + 1, Len(zips))
    /\ UNCHANGED << variant, pc, ui, summary, scene, frameGroup, camera,
                    timers, sinceInput, burst, rebuilds, arg, sane, again >>

Next ==
    \/ Bootstrap
    \/ \E e \in EditChoices : Edit(e[1], e[2])
    \/ Tick
    \/ TimerFire
    \/ ClickUpdate
    \/ ClickReset
    \/ ClickDownload
    \/ \E i \in 1..MaxExports + 1 : GenerateDone(i)

Spec == Init /\ [][Next]_vars

\* the event loop takes a timer whose wait is over off the pending ones and
\* runs its callback: of the steps of Next these are the TimerFire steps,
\* and one is possible exactly when TimerFire is
TimerRuns ==
    /\ pc = "ready"
    /\ TimerDue
    /\ timers' = Tail(timers)

\* the page with its clock running: time passes, and the event loop runs
\* the callback of a timer that is due
LiveSpec == Spec /\ WF_vars(Tick) /\ WF_timers(TimerRuns)

----------------------------------------------------------------------------
(* The functions on their own: the fields hold any of the texts below, and *)
(* normalizeParams, buildFrame and downloadZip are called on them in turn. *)

InputFields ==
    [ width        : {"600", "-5"},
      height       : {"400", "Infinity"},
      faceWidth    : {"20", "3", "1"},
      profileDepth : {"14", "3"},
      lipWidth     : {"4", "10", "30"},
      lipDepth     : {"4", "20", "abc"},
      clearance    : {"0.4", ""},
      style        : {"minimal", "bold", "wood", "neon"} ]

FnInit ==
    /\ variant \in Files
    /\ pc = "normalize"
    /\ ui \in InputFields
    /\ arg = readParams(ui)
    /\ sane = None
    /\ again = None
    /\ summary = None
    /\ scene = initThree
    /\ frameGroup = Undefined
    /\ camera = "initial"
    /\ timers = << >>
    /\ zips = << >>
    /\ downloaded = NoArchive
    /\ sinceInput = 0 - 1
    /\ burst = 0
    /\ rebuilds = 0

\* sane = normalizeParams(arg)
CallNormalize ==
    /\ pc = "normalize"
    /\ pc' = "again"
    /\ sane' = normalizeParams(arg)
    /\ UNCHANGED << variant, ui, summary, scene, frameGroup, camera, timers,
                    zips, downloaded, sinceInput, burst, rebuilds, arg, again >>

\* again = normalizeParams(sane)
CallNormalizeAgain ==
    /\ pc = "again"
    /\ pc' = "build"
    /\ again' = normalizeParams(sane)
    /\ UNCHANGED << variant, ui, summary, scene, frameGroup, camera, timers,
                    zips, downloaded, sinceInput, burst, rebuilds, arg, sane >>

\* buildFrame(arg)
CallBuildFrame ==
    /\ pc = "build"
    /\ pc' = "ready"
    /\ BuildFrame(arg)
    /\ UNCHANGED << variant, ui, timers, zips, downloaded, sinceInput,
                    burst, rebuilds, arg, sane, again >>

FnNext ==
    \/ CallNormalize
    \/ CallNormalizeAgain
    \/ CallBuildFrame
    \/ ClickDownload
    \/ \E i \in 1..MaxExports + 1 : GenerateDone(i)

FnSpec == FnInit /\ [][FnNext]_vars

----------------------------------------------------------------------------
(* Properties of normalizeParams.                                          *)

\* a function under study has been called and left its result
Called(result) == result # None

KnownStyles == {"minimal", "bold", "wood"}

\* C1: after normalization, whatever the input, 0 < lipWidth < faceWidth and
\* 0 < lipDepth < profileDepth
C1_LipInsideProfile ==
    Called(sane) =>
        /\ Less(Zero, sane.lipWidth) /\ Less(sane.lipWidth, sane.faceWidth)
        /\ Less(Zero, sane.lipDepth) /\ Less(sane.lipDepth, sane.profileDepth)

\* the style a normalizer that falls back to 'minimal' would return
StyleOrMinimal(style) == IF style \in KnownStyles THEN style ELSE "minimal"

Archives ==
    { zips[i] : i \in 1..Len(zips) }
        \cup (IF downloaded = NoArchive THEN {} ELSE {downloaded})

ValidParams(p) ==
    /\ \A i \in 1..Len(numericKeys) :
          IsFinite(p[numericKeys[i]]) /\ Less(Zero, p[numericKeys[i]])
    /\ Less(p.lipWidth, p.faceWidth)
    /\ Less(p.lipDepth, p.profileDepth)

\* C3: normalizing an already normalized parameter set changes nothing; on
\* valid parameters normalizeParams(normalizeParams(p)) = normalizeParams(p),
\* and both equal p
C3_Idempotent ==
    /\ Called(again) => again = sane
    /\ (Called(again) /\ ValidParams(arg)) => sane = arg

\* C3 witness: valid parameters other than the defaults went through twice
C3_ValidTwice ==
    /\ Called(again)
    /\ ValidParams(arg)
    /\ arg.lipWidth = Fin(20000)
    /\ arg.faceWidth = Fin(40000)
    /\ arg.width = Fin(1200000)
    /\ again.lipWidth = Fin(20000)

\* the reference normalizer: a value that is not finite or not above zero
\* becomes the default
RefValue(v, default) ==
    IF v.k = "fin" /\ v.v > 0 THEN v ELSE Fin(default)

\* the reference normalizer: an overlap is clamped to max(2, n/d * outer)
RefClamp(lip, outer, n, d) ==
    IF lip.v >= outer.v
    THEN Fin(IF (outer.v * n) \div d > 4000 THEN (outer.v * n) \div d
             ELSE 4000)
    ELSE lip

\* the second and third steps of the reference normalizer
RefClamped(q) ==
    [q EXCEPT !.lipWidth = RefClamp(q.lipWidth, q.faceWidth, 45, 100),
              !.lipDepth = RefClamp(q.lipDepth, q.profileDepth, 35, 100)]

\* the reference normalizer: defaults 600, 400, 20, 14, 4, 4 and 0.4, then
\* the two clamps, every other field as it came
RefNormalize(p) ==
    RefClamped([p EXCEPT !.width = RefValue(@, 1200000),
                         !.height = RefValue(@, 800000),
                         !.faceWidth = RefValue(@, 40000),
                         !.profileDepth = RefValue(@, 28000),
                         !.lipWidth = RefValue(@, 8000),
                         !.lipDepth = RefValue(@, 8000),
                         !.clearance = RefValue(@, 800)])

\* C4: normalizeParams is total and, on every input record, returns what the
\* reference returns; faceWidth 3 with lipWidth 10 gives lipWidth 2
C4_MatchesReference ==
    Called(sane) =>
        /\ sane = RefNormalize(arg)
        /\ (arg.faceWidth = Fin(6000) /\ arg.lipWidth = Fin(20000)) =>
              sane.lipWidth = Fin(4000)

\* C4 witness: faceWidth 3 and lipWidth 10 came out as lipWidth 2, lipDepth
\* 20 in a profile 14 deep as 4.9, and a non-finite height and an empty
\* clearance as their defaults
C4_ClampedToTwo ==
    /\ Called(sane)
    /\ ui.faceWidth = "3" /\ ui.lipWidth = "10"
    /\ ui.profileDepth = "14" /\ ui.lipDepth = "20"
    /\ ui.height = "Infinity" /\ ui.clearance = ""
    /\ sane.lipWidth = Fin(4000)
    /\ sane.lipDepth = Fin(9800)
    /\ sane.height = Fin(800000)
    /\ sane.clearance = Fin(800)

----------------------------------------------------------------------------
(* Properties of the derived dimensions.                                   *)

\* the dimensions the rails are cut to, in plain integer arithmetic, from
\* normalized parameters
RefDimensions(p) ==
    [innerWidth |-> p.width.v + 2 * p.clearance.v,
     innerHeight |-> p.height.v + 2 * p.clearance.v,
     horizontalLength |-> p.width.v + 2 * p.clearance.v + 2 * p.lipWidth.v,
     verticalLength |-> p.height.v + 2 * p.clearance.v + 2 * p.lipWidth.v,
     outerWidth |-> p.width.v + 2 * p.clearance.v + 2 * p.faceWidth.v,
     outerHeight |-> p.height.v + 2 * p.clearance.v + 2 * p.faceWidth.v,
     twoLips |-> 2 * p.lipWidth.v]

\* the lengths the first four of a sequence of meshes were extruded to
RailLengths(meshes) ==
    [i \in 1..4 |-> meshes[i].geometry.settings.depth]

\* top, bottom, left and right are as long as d says, and longer than two lips
RailsAgree(meshes, d) ==
    /\ RailLengths(meshes) =
          << Fin(d.horizontalLength), Fin(d.horizontalLength),
             Fin(d.verticalLength), Fin(d.verticalLength) >>
    /\ d.horizontalLength > d.twoLips
    /\ d.verticalLength > d.twoLips

\* the summary line shows the inner and outer sizes d says
SummaryAgrees(line, d) ==
    line = [innerWidth |-> Fin(d.innerWidth),
            innerHeight |-> Fin(d.innerHeight),
            outerWidth |-> Fin(d.outerWidth),
            outerHeight |-> Fin(d.outerHeight)]

\* the payloads of an archive's files, in order
Payloads(files) == [i \in 1..Len(files) |-> files[i].stl]

\* C5: in buildFrame and in downloadZip alike, for every input, innerWidth =
\* width + 2 * clearance, innerHeight = height + 2 * clearance, the
\* horizontal rails are innerWidth + 2 * lipWidth long and the vertical ones
\* innerHeight + 2 * lipWidth, outerWidth = innerWidth + 2 * faceWidth and
\* outerHeight = innerHeight + 2 * faceWidth, all from the normalized
\* parameters; every rail is longer than 2 * lipWidth; the defaults give
\* 600.8, 400.8, 608.8, 408.8, 640.8 and 440.8
C5_DerivedDimensions ==
    /\ frameGroup # Undefined =>
          /\ RailsAgree(frameGroup.children,
                        RefDimensions(normalizeParams(arg)))
          /\ SummaryAgrees(summary, RefDimensions(normalizeParams(arg)))
    /\ \A a \in Archives :
          RailsAgree(Payloads(a.files),
                     RefDimensions(normalizeParams(readParams(a.from))))
    /\ (frameGroup # Undefined /\ arg = defaults) =>
          /\ summary = [innerWidth |-> Fin(1201600),
                        innerHeight |-> Fin(801600),
                        outerWidth |-> Fin(1281600),
                        outerHeight |-> Fin(881600)]
          /\ RailLengths(frameGroup.children) =
                << Fin(1217600), Fin(1217600), Fin(817600), Fin(817600) >>

\* C5 witness: the default frame was built and exported, 608.8 and 408.8 long
C5_DefaultFrameExported ==
    /\ frameGroup # Undefined
    /\ arg = defaults
    /\ summary.outerWidth = Fin(1281600)
    /\ downloaded # NoArchive
    /\ downloaded.files[1].stl.geometry.settings.depth = Fin(1217600)
    /\ downloaded.files[3].stl.geometry.settings.depth = Fin(817600)

----------------------------------------------------------------------------
(* Properties of the page: debounced rebuilds and exports.                 *)

\* C6: in a run of 'input' events each less than Wait after the one before,
\* the debounced handler rebuilds exactly once: no rebuild while the run
\* lasts, one timer pending that is due Wait after the last event, and the
\* rebuild it makes uses the field values current when it runs
C6_OneRebuildPerRun ==
    /\ rebuilds <= 1
    /\ sinceInput >= 0 =>
          IF timers = << >>
          THEN rebuilds = 1 /\ sinceInput = Wait
          ELSE /\ Len(timers) = 1
               /\ timers[1] = Wait - sinceInput
               /\ rebuilds = 0
    /\ rebuilds = 1 =>
          /\ frameGroup = buildFrame(variant, readParams(ui)).group
          /\ summary = buildFrame(variant, readParams(ui)).summary

\* C6 witness: a run of two or more events ended in its one rebuild, which
\* shows both edits
C6_RunRebuiltOnce ==
    /\ burst = 2
    /\ rebuilds = 1
    /\ timers = << >>
    /\ ui.lipWidth = "30"
    /\ ui.style = "bold"
    /\ frameGroup.children[1].material.color = "0x7cc7ff"
    /\ frameGroup.children[1].geometry.settings.depth = Fin(1237600)

\* an archive holds what downloadZip makes of the fields it read at its start
FromItsOwnFields(a) ==
    a.files = zipFiles(variant, normalizeParams(readParams(a.from)))

\* a step of an export: downloadZip up to its await, or its resumption
ExportStep == zips' # zips \/ downloaded' # downloaded

\* C7: however an export interleaves with edits, debounced rebuilds, clicks
\* on update and resets, no step of the export changes the live frame, and
\* the exported pieces depend on nothing but the parameters read and
\* normalized when the export started
C7_ExportIsolated ==
    /\ [](\A a \in Archives : FromItsOwnFields(a))
    /\ [][ExportStep =>
             /\ frameGroup' = frameGroup
             /\ scene' = scene
             /\ summary' = summary
             /\ camera' = camera]_vars

\* C7 witness: an export that started on style 'bold', before the frame
\* showed it, is still suspended after the fields moved on to 'wood' and the
\* debounced rebuild made the wood frame
C7_ExportOutlivesRebuild ==
    /\ zips # << >>
    /\ zips[1].from.style = "bold"
    /\ zips[1].files[1].stl.material.color = "0x7cc7ff"
    /\ ui.style = "wood"
    /\ rebuilds = 1
    /\ frameGroup.children[1].material.roughness >= 80

----------------------------------------------------------------------------
(* Properties of the pieces of a frame and of an archive.                  *)

\* what a mesh is, told by the material its builder gives it
KindOf(mesh) ==
    IF mesh.material.color \in {"0x9ad4ff", "0x7cc7ff", "0xae8a63", "0xb18f6a"}
    THEN "rail"
    ELSE IF mesh.material.color \in {"0xffe0a3", "0xffb347"} THEN "lip"
    ELSE IF mesh.material.color = "0x72f1b8" THEN "insert"
    ELSE "other"

\* how a mesh lies, told by the rotation its builder applied
LieOf(mesh) ==
    IF \E i \in 1..Len(mesh.geometry.ops) : mesh.geometry.ops[i].op = "rotateY"
    THEN "horizontal"
    ELSE IF \E i \in 1..Len(mesh.geometry.ops) :
                mesh.geometry.ops[i].op = "rotateX"
    THEN "vertical"
    ELSE "flat"

\* the pieces of a sequence of meshes: kind and lie of each, in order
PiecesOf(meshes) ==
    [i \in 1..Len(meshes) |-> << KindOf(meshes[i]), LieOf(meshes[i]) >>]

EightPieces ==
    << << "rail", "horizontal" >>, << "rail", "horizontal" >>,
       << "rail", "vertical" >>, << "rail", "vertical" >>,
       << "lip", "horizontal" >>, << "lip", "horizontal" >>,
       << "lip", "vertical" >>, << "lip", "vertical" >> >>

FourInserts ==
    << << "insert", "flat" >>, << "insert", "flat" >>,
       << "insert", "flat" >>, << "insert", "flat" >> >>

\* the frame buildFrame makes of arg with another style
FrameOfStyle(style) ==
    buildFrame(variant, [arg EXCEPT !.style = style]).group

\* C8 as stated: 4 rails, 4 lips and 0 or 4 corner inserts, the inserts
\* present exactly when the style requires them, so that some style gives a
\* frame of 8 pieces without inserts
C8_InsertsByStyle ==
    frameGroup # Undefined =>
        /\ PiecesOf(frameGroup.children) \in
              {EightPieces, EightPieces \o FourInserts}
        /\ \E style \in KnownStyles :
              PiecesOf(FrameOfStyle(style).children) = EightPieces

\* C8 as the code has it: every frame is 2 horizontal and 2 vertical rails,
\* then 2 horizontal and 2 vertical lips, then 0 or 4 corner inserts; the
\* inserts do not depend on the style nor on any parameter: the script
\* part_000 adds the 4 inserts to every frame (12 pieces for each style),
\* the script js/app.js to none (8 pieces for each style)
C8_InsertsByScript ==
    frameGroup # Undefined =>
        /\ PiecesOf(frameGroup.children) =
              (IF variant = "part_000" THEN EightPieces \o FourInserts
               ELSE EightPieces)
        /\ \A style \in KnownStyles \cup {"neon"} :
              PiecesOf(FrameOfStyle(style).children) =
                  PiecesOf(frameGroup.children)

\* C8 witness: a frame of style 'minimal' with its 4 inserts, 12 pieces
C8_MinimalWithInserts ==
    /\ frameGroup # Undefined
    /\ variant = "part_000"
    /\ arg.style = "minimal"
    /\ Len(frameGroup.children) = 12
    /\ KindOf(frameGroup.children[12]) = "insert"
    /\ frameGroup.children[12].rotationZ = 180

\* the names of an archive's files, in order
NamesOf(files) == [i \in 1..Len(files) |-> files[i].name]

\* C9: for every parameter set the archive holds exactly one file for each
\* of the four rails, named by position (top, bottom, left, right), no file
\* for a lip overlay, and corner-insert files (2 or 4) only when the frame of
\* the same parameters has inserts; every exported piece sits at the local
\* origin, not turned, with no assembly placement
C9_ArchiveContents ==
    \A a \in Archives :
        /\ SubSeq(NamesOf(a.files), 1, 4) =
              << "frame_top.stl", "frame_bottom.stl", "frame_left.stl",
                 "frame_right.stl" >>
        /\ SubSeq(PiecesOf(Payloads(a.files)), 1, 4) = SubSeq(EightPieces, 1, 4)
        /\ \A i \in 5..Len(a.files) :
              /\ a.files[i].name \in
                    {"corner_insert_A.stl", "corner_insert_B.stl",
                     "corner_insert_C.stl", "corner_insert_D.stl"}
              /\ KindOf(a.files[i].stl) = "insert"
        /\ \A i, j \in 1..Len(a.files) :
              a.files[i].name = a.files[j].name => i = j
        /\ \A i \in 1..Len(a.files) : KindOf(a.files[i].stl) # "lip"
        /\ Len(a.files) \in {4, 6, 8}
        /\ Len(a.files) > 4 =>
              \E i \in 1..Len(buildFrame(variant,
                                         readParams(a.from)).group.children) :
                  KindOf(buildFrame(variant, readParams(a.from))
                             .group.children[i]) = "insert"
        /\ \A i \in 1..Len(a.files) :
              /\ a.files[i].stl.position = Origin
              /\ a.files[i].stl.rotationZ = 0

\* C9 witness: an archive of the four rails and two corner inserts handed
\* over, while the frame of the same fields has its rails off the centre
C9_SixFilesHandedOver ==
    /\ downloaded # NoArchive
    /\ Len(downloaded.files) = 6
    /\ downloaded.files[2].name = "frame_bottom.stl"
    /\ downloaded.files[6].name = "corner_insert_B.stl"
    /\ downloaded.files[2].stl.position = Origin
    /\ frameGroup.children[2].position # Origin
    /\ frameGroup.children[2].geometry = downloaded.files[2].stl.geometry

----------------------------------------------------------------------------
(* Properties of the end taper.                                            *)

\* the geometry of every rail there is: of the frame and of the archives
RailGeometries ==
    (IF frameGroup = Undefined THEN {}
     ELSE { frameGroup.children[i].geometry : i \in 1..4 })
        \cup { a.files[i].stl.geometry : a \in Archives, i \in 1..4 }

\* the rail's vertex of profile point i on layer l, extruded and recentred
Centred(g, i, l) ==
    ApplyOp(Vertex(g.shape[i][1], g.shape[i][2], l), g.ops[1])

\* how far a vertex moved, per axis
Shift(before, after) ==
    << after.x.v - before.x.v, after.y.v - before.y.v,
       after.z.v - before.z.v >>

\* how far the rail's second edit moved that vertex
TaperShift(g, i, l) ==
    Shift(Centred(g, i, l), ApplyOp(Centred(g, i, l), g.ops[2]))

\* the shift that goes with a skew: (skew, 0.55 * skew, 0)
ShiftOfSkew(skew) ==
    << skew.n \div skew.d, (skew.n * 11) \div (skew.d * 20), 0 >>

\* (faceWidth + 0.8 * profileDepth) * (1 - distanceFromEnd / taperSpan)
\* * sign(z), as a fraction in lowest terms
RampSkew(z, distanceFromEnd, taperSpan, reach) ==
    Rat(reach * Sign(z)
            * ((taperSpan - distanceFromEnd)
                  \div Gcd(taperSpan - distanceFromEnd, taperSpan)),
        taperSpan \div Gcd(taperSpan - distanceFromEnd, taperSpan))

\* the skew as stated: zero from taperSpan on, the ramp everywhere else
StatedSkew(z, distanceFromEnd, taperSpan, reach) ==
    IF distanceFromEnd >= taperSpan THEN Rat(0, 1)
    ELSE RampSkew(z, distanceFromEnd, taperSpan, reach)

\* the skew as the code has it: zero from taperSpan on and beyond the end,
\* the ramp in between
BoundedSkew(z, distanceFromEnd, taperSpan, reach) ==
    IF distanceFromEnd >= taperSpan \/ distanceFromEnd < 0 THEN Rat(0, 1)
    ELSE RampSkew(z, distanceFromEnd, taperSpan, reach)

\* taperSpan and faceWidth + 0.8 * profileDepth of parameters p, on integers
SpanOf(p) ==
    ((IF p.faceWidth.v > p.profileDepth.v THEN p.faceWidth.v
      ELSE p.profileDepth.v) * 11) \div 10
ReachOf(p) == p.faceWidth.v + (p.profileDepth.v * 8) \div 10

\* the rail was tapered, with the parameters p and its own length
TaperedWith(g, p) ==
    /\ Len(g.ops) >= 2
    /\ g.ops[1].op = "translate"
    /\ g.ops[2] = Op("addMiterEnds", p.faceWidth, p.profileDepth,
                     g.settings.depth)

\* (below, sane is normalizeParams(arg): no rail exists before CallNormalize)

\* C10 as stated: in every style, every vertex of the extruded, recentred
\* rail moves by (skew, 0.55 * skew), the skew zero when distanceFromEnd >=
\* taperSpan and the ramp otherwise, at the end and beyond it too; every
\* rail of every style is tapered
C10_TaperToTheEnd ==
    variant = "part_000" =>
        \A g \in RailGeometries :
            /\ TaperedWith(g, sane)
            /\ \A i \in 1..Len(g.shape) : \A l \in ExtrudeLayers(g.settings) :
                  TaperShift(g, i, l) =
                      ShiftOfSkew(StatedSkew(
                          Centred(g, i, l).z.v,
                          g.settings.depth.v \div 2
                              - Abs(Centred(g, i, l).z.v),
                          SpanOf(sane),
                          ReachOf(sane)))

\* distances from the end at which the ramp is probed, for a given taperSpan
ProbeDistances(taperSpan) ==
    { 0, taperSpan \div 4, taperSpan \div 2, taperSpan - taperSpan \div 4,
      taperSpan, taperSpan + taperSpan \div 4 }

\* the skew addMiterEnds gives a vertex at that distance from the end, on
\* the side of the given sign
SkewAt(g, distanceFromEnd, sign) ==
    miterSkew(Fin(sign * (g.settings.depth.v \div 2 - distanceFromEnd)),
              g.ops[2].z, g.ops[2].x, g.ops[2].y)

\* |a| >= |b| for fractions with positive denominators
AtLeastAsLarge(a, b) == Abs(a.n) * b.d >= Abs(b.n) * a.d

\* C10 as the code has it: in the script part_000 every rail of every style
\* is tapered (in js/app.js none is); a vertex moves by (skew, 0.55 * skew),
\* the skew zero when distanceFromEnd >= taperSpan and also when
\* distanceFromEnd < 0 (the bevel rings of style 'bold', which lie beyond
\* the ends, stay where they are), and the ramp for 0 <= distanceFromEnd <
\* taperSpan; within the length of the piece the magnitude never decreases
\* toward the end
C10_TaperWithinLength ==
    \A g \in RailGeometries :
        IF variant # "part_000"
        THEN \A k \in 1..Len(g.ops) : g.ops[k].op # "addMiterEnds"
        ELSE
            /\ TaperedWith(g, sane)
            /\ \A i \in 1..Len(g.shape) : \A l \in ExtrudeLayers(g.settings) :
                  TaperShift(g, i, l) =
                      ShiftOfSkew(BoundedSkew(
                          Centred(g, i, l).z.v,
                          g.settings.depth.v \div 2
                              - Abs(Centred(g, i, l).z.v),
                          SpanOf(sane),
                          ReachOf(sane)))
            /\ \A sign \in {0 - 1, 1} :
                  \A near, far \in
                        ProbeDistances(SpanOf(sane)) :
                      /\ SkewAt(g, near, sign) =
                            BoundedSkew(sign, near,
                                        SpanOf(sane),
                                        ReachOf(sane))
                      /\ near <= far =>
                            AtLeastAsLarge(SkewAt(g, near, sign),
                                           SkewAt(g, far, sign))

\* C10 witness: a bold rail of the default frame, whose end face moved by
\* the full skew while its bevel ring beyond that end did not move
C10_BoldEndsTapered ==
    /\ frameGroup # Undefined
    /\ variant = "part_000"
    /\ arg.style = "bold"
    /\ arg.faceWidth = Fin(40000) /\ arg.profileDepth = Fin(28000)
    /\ frameGroup.children[1].geometry.settings.bevelEnabled
    /\ TaperShift(frameGroup.children[1].geometry, 2, Zero) =
          << 0 - 62400, 0 - 34320, 0 >>
    /\ TaperShift(frameGroup.children[1].geometry, 2, Neg(Fin(2400))) =
          << 0, 0, 0 >>
    /\ SkewAt(frameGroup.children[1].geometry, 22000, 1) = Rat(62400, 2)

----------------------------------------------------------------------------
(* Properties of the scene.                                                *)

\* the frame groups among the children of a scene, in order
RECURSIVE GroupsIn(_)
GroupsIn(children) ==
    IF children = << >> THEN << >>
    ELSE (IF Head(children).type = "Group" THEN << Head(children) >>
          ELSE << >>) \o GroupsIn(Tail(children))

\* C11: after bootstrap and any sequence of edits, debounced rebuilds,
\* clicks on update, resets and exports, the scene holds exactly one frame
\* group, the one frameGroup names: each rebuild takes the previous group
\* out before it adds the new one, and between two handlers the scene never
\* holds none or two
C11_OneFrameGroup ==
    IF pc = "load"
    THEN GroupsIn(scene) = << >> /\ frameGroup = Undefined
    ELSE /\ GroupsIn(scene) = << frameGroup >>
         /\ frameGroup.type = "Group"
         /\ scene = initThree \o << frameGroup >>

\* C11 witness: after an edit to 'bold', its debounced rebuild, a click on
\* update and an export, the scene holds the bold frame and nothing older
C11_ReplacedFrameGone ==
    /\ pc = "ready"
    /\ ui.style = "bold"
    /\ rebuilds = 1
    /\ downloaded # NoArchive
    /\ Len(scene) = 4
    /\ scene[4] = frameGroup
    /\ frameGroup.children[1].material.color = "0x7cc7ff"

----------------------------------------------------------------------------
(* Properties of the placements.                                           *)

\* where the four corner inserts belong, from normalized parameters p, on
\* integers: (x, y) and the turn about z in degrees
InsertSpots(p) ==
    << << RefDimensions(p).innerWidth \div 2
            - (IF RefDimensions(p).innerWidth < RefDimensions(p).innerHeight
               THEN RefDimensions(p).innerWidth
               ELSE RefDimensions(p).innerHeight) \div 4,
          RefDimensions(p).innerHeight \div 2
            - (IF RefDimensions(p).innerWidth < RefDimensions(p).innerHeight
               THEN RefDimensions(p).innerWidth
               ELSE RefDimensions(p).innerHeight) \div 4 >>,
       << 1, 1, 0 >>, << 1, 0 - 1, 90 >>, << 0 - 1, 1, 0 - 90 >>,
       << 0 - 1, 0 - 1, 180 >> >>

\* the k-th insert sits on its spot, turned as it should be
OnItsSpot(mesh, spots, k) ==
    /\ mesh.position[1] = Fin(spots[k + 1][1] * spots[1][1])
    /\ mesh.position[2] = Fin(spots[k + 1][2] * spots[1][2])
    /\ mesh.rotationZ = spots[k + 1][3]

\* C12: for every input to buildFrame, each placement coordinate (x, y and z
\* of the position, and the rotation) of each piece of the frame, the four
\* corner inserts included, is a finite number; the inserts sit at
\* (+-(offsetX - insetOffset), +-(offsetY - insetOffset)) with insetOffset =
\* 0.25 * min(innerWidth, innerHeight), turned by 0, 90, -90 and 180 degrees
C12_PlacementsFinite ==
    frameGroup # Undefined =>
        /\ \A i \in 1..Len(frameGroup.children) :
              /\ \A j \in 1..3 : IsFinite(frameGroup.children[i].position[j])
              /\ frameGroup.children[i].rotationZ \in {0 - 90, 0, 90, 180}
        /\ \A k \in 1..4 :
              8 + k <= Len(frameGroup.children) =>
                  OnItsSpot(frameGroup.children[8 + k], InsertSpots(sane), k)

----------------------------------------------------------------------------
(* Properties of the lip overlays.                                         *)

\* the coordinates the vertices of a mesh take along the run of the piece:
\* x for a horizontal piece, y for a vertical one
AlongTheRun(mesh) ==
    { IF LieOf(mesh) = "horizontal" THEN v.x ELSE v.y :
        v \in Vertices(mesh.geometry) }

\* the two ends of a piece of that length, centred on its position
CentredEnds(length) == { Neg(Times(length, 1, 2)), Times(length, 1, 2) }

\* C13: in both orientations and for every length, the lip overlay spans
\* along the run exactly [-length/2, +length/2] about its position, as the
\* rail of the same length and orientation does, so that an overlay placed
\* at the position of its rail lies over it along its whole length
C13_LipSpansItsRail ==
    frameGroup # Undefined =>
        \A i \in 1..4 :
            /\ frameGroup.children[4 + i].position =
                  frameGroup.children[i].position
            /\ frameGroup.children[4 + i].geometry.settings.depth =
                  frameGroup.children[i].geometry.settings.depth
            /\ CentredEnds(frameGroup.children[i].geometry.settings.depth)
                  \subseteq AlongTheRun(frameGroup.children[i])
            /\ AlongTheRun(frameGroup.children[4 + i]) =
                  CentredEnds(frameGroup.children[4 + i].geometry.settings.depth)

----------------------------------------------------------------------------
(* Properties of the page: the frame follows the fields.                   *)

\* the live frame and the summary line are what buildFrame makes of the
\* fields as they are
Fresh ==
    /\ frameGroup = buildFrame(variant, readParams(ui)).group
    /\ summary = buildFrame(variant, readParams(ui)).summary

\* a step in which buildFrame ran and showed: the frame changed, or the
\* debounced handler counted one more rebuild
RebuildStep == frameGroup' # frameGroup \/ rebuilds' > rebuilds

\* C14: after bootstrap, whenever no debounce timer is pending the live
\* frame is the one built from the normalized current values of the eight
\* fields; every rebuild, the timer's, the update button's or the reset
\* button's, shows the frame of the field values current when it runs (the
\* defaults, after a reset); and with the clock running a pending timer
\* whose wait has begun leads to its rebuild from the fields, unless a new
\* input event restarts the wait first
C14_FrameFollowsFields ==
    /\ []((pc = "ready" /\ timers = << >>) => Fresh)
    /\ [][RebuildStep =>
             /\ frameGroup' = buildFrame(variant, readParams(ui')).group
             /\ summary' = buildFrame(variant, readParams(ui')).summary]_vars
    /\ (timers # << >> /\ sinceInput > 0) ~>
          ((timers = << >> /\ rebuilds >= 1 /\ Fresh) \/ sinceInput = 0)

\* C14 witness: the wait after an edit to 'wood' is over, no timer is
\* pending, and the frame is the wood frame of the fields
C14_WoodFrameShown ==
    /\ pc = "ready"
    /\ timers = << >>
    /\ sinceInput = Wait
    /\ rebuilds = 1
    /\ ui.style = "wood"
    /\ ui.lipWidth = "4"
    /\ frameGroup.children[3].material.roughness >= 80
    /\ Fresh

====
